---- MODULE Spec2Model ----
(***************************************************************************)
(* The chained arena allocator of src/src/arena.h: Arena_init,             *)
(* Arena_alloc, Arena_reset and Arena_free acting on one caller-owned head *)
(* Arena and on the blocks handed out by COOL_ARENA_FUNC_ALLOC.            *)
(*                                                                         *)
(* uintptr_t is modelled as an unsigned integer of WordBits bits; all      *)
(* arithmetic the code does on _size, _alloc_size and new_capacity is      *)
(* taken modulo 2^WordBits.                                                *)
(*                                                                         *)
(* The growable buffer of src/src/list.h (src/src/region.h is the same     *)
(* text with List renamed to Region): List_init_sized, List_push,          *)
(* List_pop, List_drop and List_free on one list, under ListSpec.          *)
(***************************************************************************)
EXTENDS Integers, FiniteSets, Sequences, TLC

\* ------------------------------------------------------------- bounds
\* Width in bits of the modelled uintptr_t.
WordBits == 3
\* Number of blocks the memory provider can have reserved at one time.
MaxBlocks == 3
\* Largest COOL_ARENA_DEF_SIZE the builds of the model are taken over.
MaxDefSize == 2
\* Largest sizeof(T) of the element type a list is declared with.
MaxElemSize == 2
\* Largest S given to List_init_sized.
MaxInitBytes == 2
\* Most elements the caller keeps in a list.
MaxListLen == 3
\* Values pushed are 1..MaxValue.
MaxValue == 2

\* ---------------------------------------------------- program constants
\* sizeof(uintptr_t): the width in bytes of one element of `_region`.
sizeof_uintptr_t == 8
\* sizeof(Arena): four word-sized fields.
sizeof_Arena == 4 * sizeof_uintptr_t

RECURSIVE Pow2(_)
Pow2(n) == IF n = 0 THEN 1 ELSE 2 * Pow2(n - 1)

\* Number of values of a uintptr_t, and the largest of them.
Modulus == Pow2(WordBits)
UINTPTR_MAX == Modulus - 1

\* The null pointer, block addresses, and the address of the caller's Arena.
NULL == 0
Blocks == 1..MaxBlocks
HEAD == MaxBlocks + 1

\* A pointer into a region: the block it was computed from and the unit offset.
Ptr(base, off) == [base |-> base, off |-> off]
NULLPTR == Ptr(NULL, 0)

VARIABLES
    def_size,   \* COOL_ARENA_DEF_SIZE of this build
    node,       \* node[a]: the Arena struct stored at address a
    heap,       \* heap[b]: bytes reserved at block b, 0 when b is not reserved
    lastOp,     \* the call that ran last: "init", "alloc", "reset", "free"
    req,        \* the `size` argument of the last Arena_alloc
    ret,        \* the pointer the last Arena_alloc returned
    outcome,    \* the return statement the last Arena_alloc left by
    served,     \* the Arena struct the last successful Arena_alloc updated
    taken,      \* taken[b]: units of block b handed out since the last
                \* Arena_init / Arena_reset / Arena_free
    obtained,   \* blocks reserved since the last Arena_init and not yet freed
    freeErr     \* TRUE once the free function got a pointer that is not reserved

\* The arena's part of the state.
avars == <<def_size, node, heap, lastOp, req, ret, outcome, served, taken,
           obtained, freeErr>>

VARIABLES
    list_T,           \* sizeof(T) of the ListType the list is declared with
    list_buf,         \* buf: the address of the buffer, NULL for none
    list_alloc_size,  \* _alloc_size
    list_size,        \* size
    list_error,       \* error
    list_bytes,       \* bytes the provider has reserved behind buf
    list_mem,         \* list_mem[i]: what reading buf[i] gives
    list_op,          \* the macro that ran last
    list_out,         \* the branch the last List_push took
    list_ret,         \* the value of List_pop when it ran last, else 0
    list_stack        \* the values pushed and not yet popped, oldest first

\* The list's part of the state.
lvars == <<list_T, list_buf, list_alloc_size, list_size, list_error,
           list_bytes, list_mem, list_op, list_out, list_ret, list_stack>>

vars == <<avars, lvars>>

\* ------------------------------------------------- w-bit arithmetic
\* a + b, a - b and a << 1 on uintptr_t.
Add(a, b) == (a + b) % Modulus
Sub(a, b) == (a - b + Modulus) % Modulus
Shl1_noop(a) == a
Shl1(a) == (2 * a) % Modulus

\* ------------------------------------------------- Arena_init
\* The four assignments of Arena_init.
BlankArena == [region |-> NULL, size |-> 0, alloc_size |-> 0, next |-> NULL]

\* ------------------------------------------------- memory provider
FreeBlocks(h) == {b \in Blocks : h[b] = 0}

\* The address malloc answers with when it succeeds: the lowest free block
\* (which address it is decides nothing in arena.h).
NextBlock(h) == CHOOSE b \in FreeBlocks(h) : \A c \in FreeBlocks(h) : b <= c

\* malloc(n) answering with block b.
Malloc(h, b, n) == [h EXCEPT ![b] = n]

\* free(p): free(NULL) does nothing.
Free(h, p) == IF p = NULL THEN h ELSE [h EXCEPT ![p] = 0]

\* free(p) of a pointer that is neither NULL nor reserved.
BadFree(h, p) == p # NULL /\ h[p] = 0

\* The Arena structs a pointer still leads to, from struct a on.
RECURSIVE ChainFrom(_, _)
ChainFrom(a, nd) ==
    IF a = NULL THEN <<>> ELSE <<a>> \o ChainFrom(nd[a].next, nd)

\* The structs of nd that the caller's arena reaches. A struct no pointer
\* leads to can never be read again and is dropped from `node`; its block
\* stays reserved in `heap`.
Reachable(nd) ==
    LET c == ChainFrom(HEAD, nd)
        keep == {c[i] : i \in 1..Len(c)}
    IN [x \in keep |-> nd[x]]

\* ------------------------------------------------- Arena_alloc helpers
\* `if (size == 0) return NULL;`
IsZeroRequest_never(size) == FALSE
IsZeroRequest(size) == size = 0

\* `size = (size >> 2) + 1;`
ToUnits_bytes(size) == size
ToUnits(size) == Add(size \div 4, 1)

\* `size <= arena->_alloc_size - arena->_size`
Fits(a, s) == s <= Sub(node[a].alloc_size, node[a].size)

\* The first-fit loop: stop at the node with no next or with enough room.
RECURSIVE Walk(_, _)
Walk(a, s) ==
    IF node[a].next = NULL \/ Fits(a, s) THEN a ELSE Walk(node[a].next, s)

\* The doubling loop, from candidate c; OVERFLOW is its `return NULL`.
OVERFLOW == 0 - 1
RECURSIVE Grow_late(_, _)
Grow_late(c, s) ==
    IF c <= s
    THEN IF c > Shl1(c) THEN OVERFLOW ELSE Grow_late(Shl1(c), s)
    ELSE c
RECURSIVE Grow(_, _)
Grow(c, s) ==
    IF c < s
    THEN IF c > Shl1(c) THEN OVERFLOW ELSE Grow(Shl1(c), s)
    ELSE c

\* `new_capacity = COOL_ARENA_DEF_SIZE; while (new_capacity < size) ...`
NewCapacity(s) == Grow(def_size, s)

\* The provider's state when the node malloc failed: `free(new_region)`.
AfterNodeFailure_leak(h, new_region) == h
AfterNodeFailure(h, new_region) == Free(h, new_region)

\* Units [off, off + len) of a block.
Range(off, len) == off..(off + len - 1)

\* ------------------------------------------------- initial state
NoTaken == [b \in Blocks |-> {}]

\* A struct ListType declares, before List_init_sized has run on it.
ListUndeclared ==
    /\ list_buf = NULL
    /\ list_alloc_size = 0
    /\ list_size = 0
    /\ list_error = 0
    /\ list_bytes = 0
    /\ list_mem = [i \in 0..(MaxListLen - 1) |-> 0]
    /\ list_op = "none"
    /\ list_out = "none"
    /\ list_ret = 0
    /\ list_stack = <<>>

Init ==
    /\ def_size \in 1..MaxDefSize
    /\ list_T = 1
    /\ ListUndeclared
    /\ node = [a \in {HEAD} |-> BlankArena]
    /\ heap = [b \in Blocks |-> 0]
    /\ lastOp = "init"
    /\ req = 0
    /\ ret = NULLPTR
    /\ outcome = "none"
    /\ served = NULL
    /\ taken = NoTaken
    /\ obtained = {}
    /\ freeErr = FALSE

\* ------------------------------------------------- Arena_init(&arena)
Arena_init ==
    /\ node' = Reachable([node EXCEPT ![HEAD] = BlankArena])
    /\ lastOp' = "init"
    /\ ret' = NULLPTR
    /\ outcome' = "none"
    /\ served' = NULL
    /\ taken' = NoTaken
    /\ obtained' = {}
    /\ UNCHANGED <<def_size, heap, req, freeErr>>
    /\ UNCHANGED lvars

\* ------------------------------------------------- Arena_alloc(&arena, size)
\* A `return NULL;` of Arena_alloc, the provider being left as h.
AllocReturnsNull(why, h) ==
    /\ ret' = NULLPTR
    /\ outcome' = why
    /\ served' = NULL
    /\ heap' = h
    /\ UNCHANGED <<node, taken, obtained>>

\* What one call of COOL_ARENA_FUNC_ALLOC may answer: TRUE a block, FALSE
\* NULL. It has no block to give when every block is reserved.
Answers(h) == IF FreeBlocks(h) = {} THEN {FALSE} ELSE {TRUE, FALSE}

\* The units of the block a returned pointer starts in, recorded as handed out.
Take(tk, base, off, len) ==
    IF base = NULL THEN tk
    ELSE [tk EXCEPT ![base] = @ \cup Range(off, len)]

\* `if (arena->_region != NULL)`: the tail already has a region, so a new
\* struct is needed.
NeedsNewArena_always(a) == TRUE
NeedsNewArena(a) == node[a].region # NULL

\* The growth path once new_region is reserved (h1): link a new struct when
\* the tail already has a region, else fill the tail in place.
Install(a, s, new_capacity, new_region, h1) ==
    IF NeedsNewArena(a)
    THEN \E nodeOK \in Answers(h1) :
        IF ~nodeOK
        THEN AllocReturnsNull("oom_node", AfterNodeFailure(h1, new_region))
        ELSE
            LET new_arena == NextBlock(h1) IN
            /\ heap' = Malloc(h1, new_arena, sizeof_Arena)
            /\ node' = [x \in DOMAIN node \cup {new_arena} |->
                          IF x = new_arena
                          THEN [region |-> new_region,
                                size |-> Add(BlankArena.size, s),
                                alloc_size |-> new_capacity,
                                next |-> BlankArena.next]
                          ELSE IF x = a
                          THEN [node[a] EXCEPT !.next = new_arena]
                          ELSE node[x]]
            /\ ret' = Ptr(new_region, 0)
            /\ outcome' = "grow"
            /\ served' = new_arena
            /\ taken' = Take(taken, new_region, 0, s)
            /\ obtained' = obtained \cup {new_region, new_arena}
    ELSE
        /\ heap' = h1
        /\ node' = [node EXCEPT ![a].region = new_region,
                                ![a].alloc_size = new_capacity,
                                ![a].size = Add(@, s)]
        /\ ret' = Ptr(new_region, 0)
        /\ outcome' = "grow"
        /\ served' = a
        /\ taken' = Take(taken, new_region, 0, s)
        /\ obtained' = obtained \cup {new_region}

Arena_alloc(size) ==
    /\ lastOp' = "alloc"
    /\ req' = size
    /\ UNCHANGED <<def_size, freeErr>>
    /\ UNCHANGED lvars
    /\ IF IsZeroRequest(size)
       THEN AllocReturnsNull("zero", heap)
       ELSE
        LET s == ToUnits(size)
            a == Walk(HEAD, s)
        IN
        IF Fits(a, s)
        THEN
            /\ ret' = Ptr(node[a].region, node[a].size)
            /\ outcome' = "fast"
            /\ served' = a
            /\ node' = [node EXCEPT ![a].size = Add(@, s)]
            /\ taken' = Take(taken, node[a].region, node[a].size, s)
            /\ UNCHANGED <<heap, obtained>>
        ELSE
        LET new_capacity == NewCapacity(s) IN
        IF new_capacity = OVERFLOW
        THEN AllocReturnsNull("overflow", heap)
        ELSE \E regionOK \in Answers(heap) :
            IF ~regionOK
            THEN AllocReturnsNull("oom_region", heap)
            ELSE LET new_region == NextBlock(heap) IN
                 Install(a, s, new_capacity, new_region,
                         Malloc(heap, new_region, new_capacity))

Alloc == \E size \in 0..UINTPTR_MAX : Arena_alloc(size)

\* ------------------------------------------------- Arena_reset(&arena)
ResetWalk_head(a, nd) ==
    IF a = NULL THEN nd ELSE [nd EXCEPT ![a].size = 0]
RECURSIVE ResetWalk_shrink(_, _)
ResetWalk_shrink(a, nd) ==
    IF a = NULL THEN nd
    ELSE ResetWalk_shrink(nd[a].next,
                          [nd EXCEPT ![a].size = 0, ![a].alloc_size = 0])
RECURSIVE ResetWalk(_, _)
ResetWalk(a, nd) ==
    IF a = NULL THEN nd
    ELSE ResetWalk(nd[a].next, [nd EXCEPT ![a].size = 0])

Arena_reset ==
    /\ node' = ResetWalk(HEAD, node)
    /\ lastOp' = "reset"
    /\ ret' = NULLPTR
    /\ outcome' = "none"
    /\ served' = NULL
    /\ taken' = NoTaken
    /\ UNCHANGED <<def_size, heap, req, obtained, freeErr>>
    /\ UNCHANGED lvars

\* ------------------------------------------------- Arena_free(&arena)
\* The loop of Arena_free from node a: the structs, the provider and the
\* bad-free flag after it.
RECURSIVE FreeWalk_keep(_, _, _, _)
FreeWalk_keep(a, nd, h, e) ==
    IF a = NULL THEN [nd |-> nd, h |-> h, e |-> e]
    ELSE FreeWalk_keep(nd[a].next,
                       [nd EXCEPT ![a].next = NULL],
                       Free(h, nd[a].region),
                       e \/ BadFree(h, nd[a].region))
RECURSIVE FreeWalk(_, _, _, _)
FreeWalk(a, nd, h, e) ==
    IF a = NULL THEN [nd |-> nd, h |-> h, e |-> e]
    ELSE FreeWalk(nd[a].next,
                  [nd EXCEPT ![a].region = NULL, ![a].next = NULL],
                  Free(h, nd[a].region),
                  e \/ BadFree(h, nd[a].region))

Arena_free ==
    LET r == FreeWalk(HEAD, node, heap, freeErr) IN
    /\ node' = Reachable(r.nd)
    /\ heap' = r.h
    /\ freeErr' = r.e
    /\ obtained' = {b \in obtained : r.h[b] # 0}
    /\ lastOp' = "free"
    /\ ret' = NULLPTR
    /\ outcome' = "none"
    /\ served' = NULL
    /\ taken' = NoTaken
    /\ UNCHANGED <<def_size, req>>
    /\ UNCHANGED lvars

\* ------------------------------------------------- specification
\* The caller initialises a struct that holds no region: a fresh one or a
\* released one. (Arena_init over live regions only loses the caller's
\* blocks; the arena that follows is a fresh one with a smaller provider.)
CallerInit ==
    /\ node[HEAD].region = NULL
    /\ node[HEAD].next = NULL
    /\ Arena_init

Next == CallerInit \/ Alloc \/ Arena_reset \/ Arena_free

Spec == Init /\ [][Next]_vars

\* ------------------------------------------------- list.h / region.h
\* The values the caller pushes, and what a slot of a buffer can read as.
Values == 1..MaxValue
Slots == 0..MaxValue

\* The two addresses realloc can answer with: the old one or another one.
ListAddrs == {1, 2}

\* `(R).error = 0;` at the head of List_push.
ErrorAtEntry_keep(e) == e
ErrorAtEntry(e) == 0

\* `(R).size >= (R)._alloc_size - 1`, on size_t.
ListFull(sz, al) == sz >= Sub(al, 1)

\* buf[i] lies inside the bytes reserved behind buf.
InBuffer(i, bytes) == (i + 1) * list_T <= bytes

\* What buf[i] can read as after `(R).buf[i] = V`: V when the slot is inside
\* the buffer; a write past the reserved bytes is undefined and may leave
\* any value there.
Stored(i, V, bytes) == IF InBuffer(i, bytes) THEN {V} ELSE Slots

\* List_init_sized(R, S), on a struct that holds no buffer; ok: the answer
\* of COOL_LIST_FUNC_ALLOC.
List_init_sized(S, ok) ==
    /\ list_buf = NULL
    /\ list_size' = 0
    /\ list_alloc_size' = S
    /\ list_buf' = IF ok THEN 1 ELSE NULL
    /\ list_error' = IF ok THEN 0 ELSE 1
    /\ list_bytes' = IF ok THEN S ELSE 0
    /\ list_mem' = [i \in 0..(MaxListLen - 1) |-> 0]
    /\ list_op' = "init"
    /\ list_out' = "none"
    /\ list_stack' = <<>>
    /\ list_ret' = 0
    /\ UNCHANGED list_T
    /\ UNCHANGED avars

\* `(R).buf[(R).size++] = V;` into the buffer of `bytes` bytes.
ListStore(V, bytes) ==
    /\ \E x \in Stored(list_size, V, bytes) :
          list_mem' = [list_mem EXCEPT ![list_size] = x]
    /\ list_size' = Add(list_size, 1)
    /\ list_stack' = Append(list_stack, V)

\* List_push(R, V) on a list that has a buffer; answer: what
\* COOL_LIST_FUNC_REALLOC gives when it is called (NULL or an address).
List_push(V, answer) ==
    /\ list_buf # NULL
    /\ list_size < MaxListLen
    /\ list_op' = "push"
    /\ list_ret' = 0
    /\ UNCHANGED list_T
    /\ UNCHANGED avars
    /\ IF ListFull(list_size, list_alloc_size)
       THEN IF answer = NULL
            THEN /\ list_error' = 1
                 /\ list_out' = "nomem"
                 /\ UNCHANGED <<list_buf, list_alloc_size, list_size,
                                list_bytes, list_mem, list_stack>>
            ELSE /\ list_error' = ErrorAtEntry(list_error)
                 /\ list_out' = "grown"
                 /\ list_buf' = answer
                 /\ list_alloc_size' = Shl1(list_alloc_size)
                 /\ list_bytes' = Shl1(list_alloc_size)
                 /\ ListStore(V, Shl1(list_alloc_size))
       ELSE /\ list_error' = ErrorAtEntry(list_error)
            /\ list_out' = "stored"
            /\ ListStore(V, list_bytes)
            /\ UNCHANGED <<list_buf, list_alloc_size, list_bytes>>

Push == \E V \in Values : \E answer \in {NULL} \cup ListAddrs :
            List_push(V, answer)

\* List_pop(R): `(R).buf[--(R).size]`, called while size > 0.
List_pop ==
    /\ list_buf # NULL
    /\ list_size > 0
    /\ list_size' = Sub(list_size, 1)
    /\ list_ret' = list_mem[Sub(list_size, 1)]
    /\ list_stack' = SubSeq(list_stack, 1, Len(list_stack) - 1)
    /\ list_op' = "pop"
    /\ list_out' = "none"
    /\ UNCHANGED <<list_T, list_buf, list_alloc_size, list_error,
                   list_bytes, list_mem>>
    /\ UNCHANGED avars

\* List_drop(R): `(R).buf[--(R).size] = 0`, called while size > 0.
List_drop ==
    /\ list_buf # NULL
    /\ list_size > 0
    /\ list_size' = Sub(list_size, 1)
    /\ list_mem' = [list_mem EXCEPT ![Sub(list_size, 1)] = 0]
    /\ list_stack' = SubSeq(list_stack, 1, Len(list_stack) - 1)
    /\ list_op' = "drop"
    /\ list_out' = "none"
    /\ list_ret' = 0
    /\ UNCHANGED <<list_T, list_buf, list_alloc_size, list_error,
                   list_bytes>>
    /\ UNCHANGED avars

\* List_free(R): the buffer goes back to the provider, and its contents
\* with it; size, _alloc_size and error stay as they are.
List_free ==
    /\ list_buf # NULL
    /\ list_buf' = NULL
    /\ list_bytes' = 0
    /\ list_mem' = [i \in 0..(MaxListLen - 1) |-> 0]
    /\ list_stack' = <<>>
    /\ list_op' = "free"
    /\ list_out' = "none"
    /\ list_ret' = 0
    /\ UNCHANGED <<list_T, list_alloc_size, list_size, list_error>>
    /\ UNCHANGED avars

ListInit ==
    /\ def_size = 1
    /\ list_T \in 1..MaxElemSize
    /\ ListUndeclared
    /\ node = [a \in {HEAD} |-> BlankArena]
    /\ heap = [b \in Blocks |-> 0]
    /\ lastOp = "init"
    /\ req = 0
    /\ ret = NULLPTR
    /\ outcome = "none"
    /\ served = NULL
    /\ taken = NoTaken
    /\ obtained = {}
    /\ freeErr = FALSE

InitSized == \E S \in 0..MaxInitBytes : \E ok \in BOOLEAN :
                List_init_sized(S, ok)

ListNext == InitSized \/ Push \/ List_pop \/ List_drop \/ List_free

ListSpec == ListInit /\ [][ListNext]_vars

\* ------------------------------------------------- shared by the properties
\* The structs of the arena in chain order, head first.
Chain == ChainFrom(HEAD, node)

\* The last call was an Arena_alloc that returned a block.
Allocated == lastOp = "alloc" /\ outcome \in {"fast", "grow"}

Min(S) == CHOOSE x \in S : \A y \in S : x <= y

\* The smallest d * 2^k (k >= 0) that is >= s, as a natural number.
SmallestDoubling(d, s) ==
    d * Pow2(Min({k \in 0..WordBits : d * Pow2(k) >= s}))

\* ------------------------------------------------- C1
\* C1: after Arena_free the head struct is exactly what Arena_init writes:
\* no region, _size = 0, _alloc_size = 0, no next.
C1_ReleaseReinitializesHead ==
    lastOp = "free" => node[HEAD] = BlankArena

\* ------------------------------------------------- C2
\* C2: every struct of the chain has _size <= _alloc_size in every reachable
\* state, and an allocation served by the fast path never lowers the _size
\* of the struct that serves it.
C2_UsedWithinCapacity ==
    /\ [](\A a \in DOMAIN node : node[a].size <= node[a].alloc_size)
    /\ [][(lastOp' = "alloc" /\ outcome' = "fast")
            => node'[served'].size >= node[served'].size]_vars

\* ------------------------------------------------- C3
\* C3: the block behind every region was reserved with at least
\* _alloc_size * sizeof(uintptr_t) bytes.
C3_BufferHoldsCapacity ==
    \A a \in DOMAIN node :
        node[a].region # NULL
            => heap[node[a].region] >= node[a].alloc_size * sizeof_uintptr_t

\* ------------------------------------------------- C4
\* C4: after Arena_free nothing this arena reserved since its Arena_init is
\* still reserved: every region and every struct Arena_alloc created is back
\* with the provider.
C4_ReleaseReturnsEverything ==
    lastOp = "free" => obtained = {}

\* ------------------------------------------------- C5
\* C5: Arena_alloc(arena, 0) returns NULL and changes no struct and no
\* block of the provider.
C5_ZeroRequestNoEffect ==
    [][(lastOp' = "alloc" /\ req' = 0)
        => (ret' = NULLPTR /\ UNCHANGED <<node, heap>>)]_vars

\* A zero request made on an arena that has two regions with blocks handed out.
C5_Witness ==
    /\ lastOp = "alloc" /\ req = 0 /\ ret = NULLPTR
    /\ Len(Chain) >= 2
    /\ \A a \in DOMAIN node : node[a].region # NULL /\ node[a].size > 0

\* ------------------------------------------------- C6
\* C6: an Arena_alloc that fails because the provider answered NULL, for the
\* region or for the struct, returns NULL and leaves every struct and every
\* block of the provider as before the call.
C6_ProviderFailureNoEffect ==
    [][(lastOp' = "alloc" /\ outcome' \in {"oom_region", "oom_node"})
        => (ret' = NULLPTR /\ UNCHANGED <<node, heap>>)]_vars

\* The struct malloc failed after the region malloc had answered a block.
C6_Witness ==
    /\ lastOp = "alloc" /\ outcome = "oom_node" /\ ret = NULLPTR
    /\ FreeBlocks(heap) # {}

\* ------------------------------------------------- C7
\* C7: a non-zero request of s units is served by the first struct in chain
\* order whose _alloc_size - _size (as numbers) is >= s, at region + _size;
\* only when no struct has that much room is a region created, and it is
\* then the tail of the chain.
C7_FirstFit ==
    [][(lastOp' = "alloc" /\ req' # 0) =>
        LET s == ToUnits(req')
            c == ChainFrom(HEAD, node)
            Q == {i \in 1..Len(c) :
                     node[c[i]].alloc_size - node[c[i]].size >= s}
        IN  IF Q # {}
            THEN /\ outcome' = "fast"
                 /\ served' = c[Min(Q)]
                 /\ ret' = Ptr(node[c[Min(Q)]].region, node[c[Min(Q)]].size)
            ELSE /\ outcome' # "fast"
                 /\ outcome' = "grow" =>
                       LET c2 == ChainFrom(HEAD, node') IN
                       /\ served' = c2[Len(c2)]
                       /\ SubSeq(c2, 1, Len(c)) = c]_vars

\* ------------------------------------------------- C8
\* C8: the doubling loop yields the smallest def_size * 2^k >= s whenever
\* that value fits a uintptr_t and fails otherwise; the region a growing
\* Arena_alloc installs has exactly that capacity, and no struct ever holds
\* a capacity that is not def_size * 2^k.
C8_GrowthDoubling ==
    /\ \A s \in 1..UINTPTR_MAX :
          NewCapacity(s) = IF SmallestDoubling(def_size, s) <= UINTPTR_MAX
                           THEN SmallestDoubling(def_size, s)
                           ELSE OVERFLOW
    /\ (lastOp = "alloc" /\ outcome = "grow")
          => node[served].alloc_size = SmallestDoubling(def_size, ToUnits(req))
    /\ (lastOp = "alloc" /\ outcome = "overflow") => ret = NULLPTR
    /\ \A a \in DOMAIN node :
          \/ node[a].alloc_size = 0
          \/ \E k \in 0..WordBits : node[a].alloc_size = def_size * Pow2(k)

\* A growing Arena_alloc whose loop doubled at least once.
C8_Witness ==
    /\ lastOp = "alloc" /\ outcome = "grow"
    /\ node[served].alloc_size > def_size

\* ------------------------------------------------- C9
\* C9: the region reserved for a request of `size` bytes has at least `size`
\* bytes, and exactly COOL_ARENA_DEF_SIZE bytes when size is below that.
C9_RegionCoversRequestedBytes ==
    (lastOp = "alloc" /\ outcome = "grow") =>
        /\ heap[ret.base] >= req
        /\ req < def_size => heap[ret.base] = def_size

\* ------------------------------------------------- C10
\* C10: a block Arena_alloc returns shares no unit with a block the same
\* region handed out since the last Arena_reset / Arena_free.
C10_NoOverlap ==
    [][(lastOp' = "alloc" /\ outcome' \in {"fast", "grow"}
            /\ ret'.base # NULL)
        => Range(ret'.off, ToUnits(req')) \cap taken[ret'.base] = {}]_vars

\* ------------------------------------------------- C11
\* C11: Arena_reset sets _size = 0 in every struct of the chain, changes no
\* _alloc_size, region or next, calls neither provider function, and a
\* second Arena_reset changes nothing more.
C11_ResetClearsUsedOnly ==
    /\ [][lastOp' = "reset" =>
            /\ DOMAIN node' = DOMAIN node
            /\ \A a \in DOMAIN node :
                  node'[a] = [node[a] EXCEPT !.size = 0]
            /\ UNCHANGED <<heap, obtained, freeErr>>]_vars
    /\ [](lastOp = "reset" => ResetWalk(HEAD, node) = node)

\* A reset of two regions that both had blocks handed out.
C11_Witness ==
    /\ lastOp = "reset"
    /\ Len(Chain) >= 2
    /\ \A a \in DOMAIN node :
          node[a].size = 0 /\ node[a].alloc_size > 0 /\ node[a].region # NULL

\* ------------------------------------------------- C12
\* C12: an Arena_alloc made directly after Arena_reset whose unit count is
\* <= the _alloc_size of some struct of the chain returns a non-null pointer
\* to offset 0 of the region of the first such struct, links no struct and
\* calls no provider function.
C12_ReuseAfterReset ==
    [][(lastOp = "reset" /\ lastOp' = "alloc" /\ req' # 0) =>
        LET s == ToUnits(req')
            c == ChainFrom(HEAD, node)
            Q == {i \in 1..Len(c) : node[c[i]].alloc_size >= s}
        IN  Q # {} =>
              /\ ret' # NULLPTR
              /\ ret' = Ptr(node[c[Min(Q)]].region, 0)
              /\ served' = c[Min(Q)]
              /\ DOMAIN node' = DOMAIN node
              /\ UNCHANGED <<heap, obtained>>]_vars

\* ------------------------------------------------- C13
\* C13: every struct is empty (no region, _alloc_size = 0, _size = 0) or
\* active (region, _alloc_size > 0, _size <= _alloc_size).
C13_TwoShapes ==
    \A a \in DOMAIN node :
        \/ node[a].region = NULL /\ node[a].alloc_size = 0 /\ node[a].size = 0
        \/ /\ node[a].region # NULL
           /\ node[a].alloc_size > 0
           /\ node[a].size <= node[a].alloc_size

\* ------------------------------------------------- C14
\* C14: an Arena_alloc that returns a block of s units raises the _size of
\* the struct that serves it by exactly s (from 0 for a struct it links) and
\* changes the _size, _alloc_size and region of no other struct.
C14_OneRegionAdvances ==
    [][(lastOp' = "alloc" /\ outcome' \in {"fast", "grow"}) =>
        LET s == ToUnits(req')
            before == IF served' \in DOMAIN node
                      THEN node[served'].size ELSE 0
        IN  /\ node'[served'].size = before + s
            /\ \A a \in DOMAIN node \ {served'} :
                  /\ a \in DOMAIN node'
                  /\ node'[a].size = node[a].size
                  /\ node'[a].alloc_size = node[a].alloc_size
                  /\ node'[a].region = node[a].region]_vars

\* ------------------------------------------------- C17
\* C17: after a growing Arena_alloc of s units the struct that got the new
\* region has _size = s and _alloc_size = the capacity the loop ended on,
\* and the pointer returned is the start of the new region.
C17_GrowthInstallsExactly ==
    (lastOp = "alloc" /\ outcome = "grow") =>
        /\ node[served].size = ToUnits(req)
        /\ node[served].alloc_size = NewCapacity(ToUnits(req))
        /\ ret = Ptr(node[served].region, 0)
        /\ ret.base # NULL

\* ------------------------------------------------- C18
\* C18: a growing Arena_alloc links a new struct exactly when the tail has a
\* region; when it has none the tail is the head, which is filled in place,
\* and the chain keeps one struct. Every struct other than the head has a
\* region, and its _size stays >= 1 until an Arena_reset or Arena_free.
C18_NonHeadBornActive ==
    /\ [][(lastOp' = "alloc" /\ outcome' = "grow") =>
            LET c == ChainFrom(HEAD, node)
                tail == c[Len(c)]
            IN  IF node[tail].region # NULL
                THEN /\ served' \notin DOMAIN node
                     /\ ChainFrom(HEAD, node') = c \o <<served'>>
                ELSE /\ tail = HEAD
                     /\ served' = HEAD
                     /\ ChainFrom(HEAD, node') = <<HEAD>>]_vars
    /\ [](\A a \in DOMAIN node \ {HEAD} : node[a].region # NULL)
    /\ [][lastOp' \notin {"reset", "free"} =>
            \A a \in DOMAIN node' \ {HEAD} :
                (a \in DOMAIN node => node[a].size >= 1)
                    => node'[a].size >= 1]_vars

\* A growing Arena_alloc that linked a struct behind a head with a region.
C18_Witness ==
    /\ lastOp = "alloc" /\ outcome = "grow"
    /\ served # HEAD
    /\ node[HEAD].next = served
    /\ node[served].size >= 1

\* ------------------------------------------------- C19
\* C19 (as claimed): no Arena_alloc, Arena_reset or Arena_free ever lowers
\* the _alloc_size of a struct.
C19_CapacityNeverShrinks ==
    [][lastOp' # "init" =>
        \A a \in DOMAIN node \cap DOMAIN node' :
            node'[a].alloc_size >= node[a].alloc_size]_vars

\* C19 (amended): while a struct keeps its region, that is under every call
\* but Arena_free, its _alloc_size and its region stay what they are.
C19_CapacityFixedWhileRegionLives ==
    [][lastOp' # "free" =>
        \A a \in DOMAIN node :
            node[a].region # NULL =>
                /\ a \in DOMAIN node'
                /\ node'[a].alloc_size = node[a].alloc_size
                /\ node'[a].region = node[a].region]_vars

\* A reset, then a block served from a region that kept its capacity.
C19_Witness ==
    /\ lastOp = "alloc" /\ outcome = "fast"
    /\ node[served].region # NULL
    /\ node[served].alloc_size > 0
    /\ Len(Chain) >= 2

\* ------------------------------------------------- C20
\* The struct reached from a by following next n times (NULL once the
\* chain has ended).
RECURSIVE NthNext(_, _)
NthNext(a, n) ==
    IF n = 0 \/ a = NULL THEN a
    ELSE IF a \in DOMAIN node THEN NthNext(node[a].next, n - 1) ELSE NULL

\* C20: following next from the head ends at NULL within as many steps as
\* there are structs (the chain is finite and has no cycle, so the walks of
\* Arena_alloc, Arena_reset and Arena_free end), and for every default size
\* >= 1 each turn of the doubling loop either leaves by the overflow test
\* or raises the candidate, so the loop ends with a capacity >= s or with
\* the failure.
C20_ChainAcyclicLoopsEnd ==
    /\ NthNext(HEAD, Cardinality(DOMAIN node)) = NULL
    /\ \A c \in 1..UINTPTR_MAX : c > Shl1(c) \/ Shl1(c) > c
    /\ \A d \in 1..UINTPTR_MAX : \A s \in 1..UINTPTR_MAX :
          Grow(d, s) = OVERFLOW \/ Grow(d, s) \in s..UINTPTR_MAX

\* A chain of two structs, reached through the doubling loop.
C20_Witness ==
    /\ Len(Chain) >= 2
    /\ \E a \in DOMAIN node : node[a].alloc_size > def_size

\* ------------------------------------------------- C15
\* C15: a List_push that reports no error stores its value at index size
\* and raises size by 1; List_pop returns the value pushed last among those
\* not yet popped and lowers size by 1; the values pushed earlier read back
\* unchanged after every push, also one that reallocated the buffer.
C15_Lifo ==
    /\ [][(list_op' = "push" /\ list_error' = 0) =>
            /\ list_size' = list_size + 1
            /\ list_mem'[list_size] = list_stack'[Len(list_stack')]
            /\ \A i \in 1..Len(list_stack) :
                  list_mem'[i - 1] = list_stack[i]]_vars
    /\ [][list_op' = "pop" =>
            /\ list_ret' = list_stack[Len(list_stack)]
            /\ list_size' = list_size - 1]_vars

\* ------------------------------------------------- C16
\* C16: error is 1 after a List_push exactly when the push had to grow the
\* buffer and the reallocation answered NULL; buf, size, _alloc_size and
\* the stored values are then unchanged; a push that stores its value
\* leaves error = 0 and size one higher, whatever error was before.
C16_PushErrorReporting ==
    [][list_op' = "push" =>
        /\ list_error' = 1 <=>
              (ListFull(list_size, list_alloc_size) /\ list_out' = "nomem")
        /\ list_error' = 1 =>
              UNCHANGED <<list_buf, list_size, list_alloc_size, list_mem>>
        /\ list_error' # 1 =>
              /\ list_error' = 0
              /\ list_size' = list_size + 1
              /\ list_out' \in {"stored", "grown"}]_vars

\* A push that failed in the reallocation, on a list that holds a value.
C16_Witness ==
    /\ list_op = "push" /\ list_out = "nomem" /\ list_error = 1
    /\ list_size >= 1

\* ------------------------------------------------- C21
\* C21: a non-null pointer returned by Arena_alloc lies in a block that is
\* reserved from the provider and is the region of a struct of the arena,
\* at an offset inside that region's capacity; an Arena_alloc that follows
\* Arena_free returns NULL or the start of a block reserved by this call.
C21_ReturnedPointerInLiveRegion ==
    /\ [](ret # NULLPTR =>
            /\ ret.base # NULL
            /\ heap[ret.base] # 0
            /\ \E a \in DOMAIN node :
                  /\ node[a].region = ret.base
                  /\ ret.off < node[a].alloc_size)
    /\ [][(lastOp = "free" /\ lastOp' = "alloc") =>
            \/ ret' = NULLPTR
            \/ /\ ret'.off = 0
               /\ ret'.base # NULL
               /\ heap[ret'.base] = 0
               /\ heap'[ret'.base] # 0]_vars

\* ------------------------------------------------- C22
\* C22: a request of b bytes becomes s = floor(b / 4) + 1 <= 2^(WordBits-2)
\* units; for every default size d in 1..UINTPTR_MAX the doubling loop then
\* ends at the smallest d * 2^k >= s, a value that fits the word (no
\* doubling wraps), so Arena_alloc never returns NULL for overflow. Stated
\* on the request b = req of each Arena_alloc; req takes every value of
\* 1..UINTPTR_MAX.
C22_OverflowBranchUnreachable ==
    [](/\ outcome # "overflow"
       /\ (lastOp = "alloc" /\ req # 0) =>
             /\ ToUnits(req) = (req \div 4) + 1
             /\ ToUnits(req) <= Pow2(WordBits - 2)
             /\ \A d \in 1..UINTPTR_MAX :
                   /\ Grow(d, ToUnits(req)) # OVERFLOW
                   /\ Grow(d, ToUnits(req)) = SmallestDoubling(d, ToUnits(req))
                   /\ Grow(d, ToUnits(req)) <= UINTPTR_MAX)

\* The largest request was served by a region the doubling loop sized above
\* the default size.
C22_Witness ==
    /\ lastOp = "alloc" /\ outcome = "grow" /\ req = UINTPTR_MAX
    /\ node[served].alloc_size > def_size
    /\ node[served].alloc_size = NewCapacity(ToUnits(req))

\* ------------------------------------------------- C23
\* C23: the free function never gets a pointer that is neither NULL nor a
\* reserved block (no block is freed twice), and a block that stops being
\* reserved was obtained by this arena from the provider and is given back
\* by Arena_free.
C23_NoDoubleOrForeignFree ==
    /\ [](~freeErr)
    /\ [][\A b \in Blocks :
            (heap[b] # 0 /\ heap'[b] = 0) =>
                (b \in obtained /\ lastOp' = "free")]_vars

\* Arena_free gave back the regions of a chain that had a second struct:
\* every region is released, the struct's own block is still reserved.
C23_Witness ==
    /\ lastOp = "free"
    /\ node[HEAD].region = NULL
    /\ \E b \in obtained : heap[b] = sizeof_Arena
    /\ \A b \in Blocks : heap[b] \in {0, sizeof_Arena}
    /\ ~freeErr

\* ------------------------------------------------- C24
\* C24: every List_push that stores its value writes buf[i], i the size
\* before the push, inside the buffer: (i + 1) * sizeof(T) is at most
\* _alloc_size and at most the bytes reserved behind buf.
C24_PushWritesInsideBuffer ==
    [][(list_op' = "push" /\ list_out' \in {"stored", "grown"}) =>
        /\ (list_size + 1) * list_T <= list_alloc_size'
        /\ InBuffer(list_size, list_bytes')]_vars

====
